---- MODULE Spec2Model ----
(***************************************************************************)
(* Model of the ball chain of the zuma game (src/src/game/BallChain.js)    *)
(* and of the game that drives it (class Game of Renderer.js).             *)
(*                                                                         *)
(* Units.  The source computes with JavaScript numbers.  The model keeps   *)
(* the arithmetic exact in the integers by measuring                       *)
(*   - distances in half pixels (36 px = 72 units), and                    *)
(*   - time in units of 5/22 s, so that update(dt) is called with dt a     *)
(*     whole number of such units (0 included).                            *)
(* With these units, at level 1, speed = 55 px/s = 25 units of distance    *)
(* per unit of time, attractionSpeed = 220 px/s = 100, gap/50 (px) is      *)
(* gap/100 (units) and                                                     *)
(*   -attractionSpeed * (0.5 + min(gap/50, 1.5)) * dt                      *)
(*      = -(50 + min(gap, 150)) * dt,                                      *)
(* an integer: nothing is rounded anywhere in the model.                   *)
(*                                                                         *)
(* Array indices are the 0-based indices of the source in every input and  *)
(* return value; the k-th element of the JavaScript array is balls[k+1].   *)
(***************************************************************************)
EXTENDS Integers, Sequences, FiniteSets, TLC

VARIABLES balls, spawnTimer, spawnedCount, nextId, path, last, game

vars == <<balls, spawnTimer, spawnedCount, nextId, path, last, game>>

(***************************************************************************)
(* Bounds of the model.                                                    *)
(***************************************************************************)
\* spawn cap used instead of 20 + level * 10 (BallChain.js:24)
SpawnCap == 3
\* number of tokens the model creates: those spawned, up to the spawn cap, and
\* those inserted by insertBall
MaxTokens == 6
\* path.totalLength in half pixels (it depends on the size of the canvas)
TotalLength == 200
\* no tick and no insertion is explored once the last ball of the array is this
\* far (half pixels)
MaxDistance == 320
\* the largest tick, in units of 5/22 s (a resume after a pause)
BigDt == 12
\* getPointAt is explored this far below 0 and beyond the end of the path
Margin == 20
\* the longest chain checkCollision is explored on
MaxChain == 3
\* the widest gap between two segments that repeated ticks are started from
MaxGap == 230
\* the most projectiles in flight at a time
MaxProjectiles == 2
\* the most game loops started and not yet ended
MaxLoops == 2
\* the highest level nextLevel() is followed to
MaxLevel == 2
\* size of the palette explored, of the 4 colours of BallChain.js:19
NumColors == 2
\* the lengths of the first two legs of the path explored (half pixels)
LegA == 80
LegB == 60

(***************************************************************************)
(* Constants of the constructor.                                           *)
(***************************************************************************)
level == 1
ballRadius == 18 * 2
speed == ((50 + (level * 5)) * 2 * 5) \div 22
colors == 1..NumColors
diameter == ballRadius * 2
epsilon == 2 * 2
attractionSpeed == speed * 4
maxBalls == SpawnCap
totalLength == path.totalLength

\* the dt values a tick is called with: 0, two units (less than the spawn
\* interval of 2.88 units) and a large one
Dts == {0, 2, BigDt}

Min(a, b) == IF a < b THEN a ELSE b
Abs(a) == IF a < 0 THEN 0 - a ELSE a

Ball(id, color, distance) == [id |-> id, color |-> color, distance |-> distance]

(***************************************************************************)
(* The path (class Path of Renderer.js).  The source samples a spiral at   *)
(* 501 points; the model takes a path of three straight legs, east, south  *)
(* and west, of total length TotalLength, whose points and lengths are     *)
(* integers, and computes with it as the source does with its points.      *)
(***************************************************************************)
Point(x, y) == [x |-> x, y |-> y]

\* this.points after the loop of generateSpiral
spiralPoints ==
    << Point(0, 0), Point(LegA, 0), Point(LegA, LegB),
       Point(LegA - (TotalLength - LegA - LegB), LegB) >>

\* Math.hypot(dx, dy), for the arguments whose result is an integer
hypot(dx, dy) ==
    CHOOSE r \in 0..(Abs(dx) + Abs(dy)) : r * r = (dx * dx) + (dy * dy)

\* the second loop of generateSpiral from segment i (1-based): p collects
\* segmentLengths and totalLength
RECURSIVE measure(_, _)
measure(p, i) ==
    IF i > Len(p.points) - 1 THEN p
    ELSE LET p1 == p.points[i]
             p2 == p.points[i + 1]
             dist == hypot(p2.x - p1.x, p2.y - p1.y)
         IN  measure([p EXCEPT !.segmentLengths = Append(@, dist),
                               !.totalLength = @ + dist], i + 1)

\* new Path(width, height, level) with the points pts
generateSpiral(pts) ==
    measure([points |-> pts, segmentLengths |-> <<>>, totalLength |-> 0], 1)

\* a variant of the loop of getPointAt that takes a distance at the end of a
\* segment to the next segment; C15 does not hold with it
RECURSIVE locateStrict(_, _, _, _)
locateStrict(p, distance, i, currentDist) ==
    IF i > Len(p.segmentLengths)
    THEN LET end == p.points[Len(p.points)]
         IN  [x |-> end.x, y |-> end.y, angle |-> 0]
    ELSE LET segLen == p.segmentLengths[i] IN
         IF currentDist + segLen > distance
         THEN LET remaining == distance - currentDist
                  p1 == p.points[i]
                  p2 == p.points[i + 1]
              IN  [ x |-> p1.x + ((p2.x - p1.x) * remaining) \div segLen,
                    y |-> p1.y + ((p2.y - p1.y) * remaining) \div segLen,
                    angle |-> i ]
         ELSE locateStrict(p, distance, i + 1, currentDist + segLen)

\* the loop of getPointAt from segment i (1-based) with currentDist; the angle
\* of a result is given as the (1-based) segment whose direction it is, 0 when
\* the result has none
RECURSIVE locate(_, _, _, _)
locate(p, distance, i, currentDist) ==
    IF i > Len(p.segmentLengths)
    THEN LET end == p.points[Len(p.points)]
         IN  [x |-> end.x, y |-> end.y, angle |-> 0]
    ELSE LET segLen == p.segmentLengths[i] IN
         IF currentDist + segLen >= distance
         THEN LET remaining == distance - currentDist
                  p1 == p.points[i]
                  p2 == p.points[i + 1]
              IN  \* p1 + (p2 - p1) * t with t = remaining / segLen
                  [ x |-> p1.x + ((p2.x - p1.x) * remaining) \div segLen,
                    y |-> p1.y + ((p2.y - p1.y) * remaining) \div segLen,
                    angle |-> i ]
         ELSE locate(p, distance, i + 1, currentDist + segLen)

\* path.getPointAt(distance): the path after the call and the point returned
getPointAt(p, distance) ==
    [ path |-> p,
      ret |->
        IF distance < 0
        THEN LET p1 == p.points[1]
                 p2 == p.points[2]
                 len == hypot(p2.x - p1.x, p2.y - p1.y)
             IN  \* cos(angle) = (p2.x - p1.x) / len, sin(angle) = (p2.y - p1.y) / len
                 [ x |-> p1.x + ((p2.x - p1.x) * distance) \div len,
                   y |-> p1.y + ((p2.y - p1.y) * distance) \div len,
                   angle |-> 1 ]
        ELSE IF distance >= p.totalLength
        THEN LET end == p.points[Len(p.points)]
             IN  [x |-> end.x, y |-> end.y, angle |-> Len(p.points) - 1]
        ELSE locate(p, distance, 1, 0) ]

\* this.balls.splice(start, count) with a 0-based start
Splice(b, start, count) ==
    SubSeq(b, 1, start) \o SubSeq(b, start + count + 1, Len(b))

\* this.balls.splice(at, 0, x) with a 0-based at
SpliceIn(b, at, x) ==
    SubSeq(b, 1, at) \o <<x>> \o SubSeq(b, at + 1, Len(b))

(***************************************************************************)
(* spawnBall: the colour choice and the spawn position.                    *)
(***************************************************************************)
\* the loop of spawnBall over this.balls: indices (1-based, 0 for null) of the
\* ball of smallest |distance| and of the runner-up
RECURSIVE closestScan(_, _, _, _)
closestScan(b, k, closest, secondClosest) ==
    IF k > Len(b) THEN [closest |-> closest, secondClosest |-> secondClosest]
    ELSE IF closest = 0 \/ Abs(b[k].distance) < Abs(b[closest].distance)
         THEN closestScan(b, k + 1, k, closest)
         ELSE IF secondClosest = 0
                 \/ Abs(b[k].distance) < Abs(b[secondClosest].distance)
              THEN closestScan(b, k + 1, closest, k)
              ELSE closestScan(b, k + 1, closest, secondClosest)

closestOf(b) == closestScan(b, 1, 0, 0)

\* the colours spawnBall can end up with: Math.random() picks any colour of
\* the palette; when the two closest balls share a colour the draw is repeated
\* while it gives that colour, at most 10 times, so the tenth draw can still
\* return it
spawnColors(b) ==
    LET cl == closestOf(b) IN
    IF cl.closest # 0 /\ cl.secondClosest # 0
       /\ b[cl.closest].color = b[cl.secondClosest].color
    THEN {c \in colors : c # b[cl.closest].color} \cup {b[cl.closest].color}
    ELSE colors

\* a variant of the spawn position that always takes the start of the path;
\* C17 does not hold with it
spawnDistanceAtStart(b) == 0

spawnDistance(b) ==
    LET cl == closestOf(b) IN
    IF cl.closest # 0 THEN b[cl.closest].distance - (ballRadius * 2) ELSE 0

spawnBall(b, id, color) == Append(b, Ball(id, color, spawnDistance(b)))

\* this.spawnTimer >= this.spawnInterval, with spawnInterval = diameter / speed
intervalElapsed(timer) == timer * speed >= ballRadius * 2

(***************************************************************************)
(* update, step by step.                                                   *)
(***************************************************************************)
\* Array.prototype.sort with (a, b) => a.distance - b.distance: a stable sort
RECURSIVE insertByDistance(_, _)
insertByDistance(s, x) ==
    IF s = <<>> THEN <<x>>
    ELSE IF s[Len(s)].distance <= x.distance THEN Append(s, x)
    ELSE Append(insertByDistance(SubSeq(s, 1, Len(s) - 1), x), s[Len(s)])

RECURSIVE sortBalls(_)
sortBalls(b) ==
    IF b = <<>> THEN <<>>
    ELSE insertByDistance(sortBalls(SubSeq(b, 1, Len(b) - 1)), b[Len(b)])

\* step 2: the segments, each the sequence of the (1-based) indices of its balls
RECURSIVE segmentScan(_, _, _, _)
segmentScan(b, i, segments, currentSegment) ==
    IF i > Len(b) THEN Append(segments, currentSegment)
    ELSE IF b[i].distance - b[i - 1].distance <= diameter + epsilon
         THEN segmentScan(b, i + 1, segments, Append(currentSegment, i))
         ELSE segmentScan(b, i + 1, Append(segments, currentSegment), <<i>>)

identifySegments(b) == segmentScan(b, 2, <<>>, <<1>>)

\* a variant of the motion step whose pull on a trailing segment is that of one
\* unit of time whatever dt is; C13 does not hold with it
moveStepUnscaled(b, segments, i, dt) ==
    IF i = 1 THEN speed * dt
    ELSE LET prevSegment == segments[i - 1]
             prevTail == b[prevSegment[Len(prevSegment)]]
             head == b[segments[i][1]]
             gap == head.distance - prevTail.distance - diameter
             pull == Min((attractionSpeed * gap) \div 100, (attractionSpeed * 3) \div 2)
         IN  0 - ((attractionSpeed \div 2) + pull)

\* moveSpeed * dt of segment i (1-based), read from the array as it is when the
\* loop reaches segment i: the previous segment has already been moved
moveStep(b, segments, i, dt) ==
    IF i = 1 THEN speed * dt
    ELSE LET prevSegment == segments[i - 1]
             prevTail == b[prevSegment[Len(prevSegment)]]
             head == b[segments[i][1]]
             gap == head.distance - prevTail.distance - diameter
             \* attractionSpeed * min(gap / 50, 1.5), gap / 50 px = gap / 100
             pull == Min((attractionSpeed * gap) \div 100, (attractionSpeed * 3) \div 2)
         IN  0 - ((attractionSpeed \div 2) + pull) * dt

\* a variant of the inner loop of step 3 that moves the head of the segment
\* only; C20 does not hold with it
applySpeedHead(b, segment, k, step) ==
    IF k > Len(segment) THEN b
    ELSE [b EXCEPT ![segment[k]].distance = @ + step]

\* the inner loop of step 3: ball.distance += moveSpeed * dt for the balls of
\* one segment, from its k-th on
RECURSIVE applySpeed(_, _, _, _)
applySpeed(b, segment, k, step) ==
    IF k > Len(segment) THEN b
    ELSE applySpeed([b EXCEPT ![segment[k]].distance = @ + step], segment, k + 1, step)

\* a variant of step 3 that drops the balls that have reached the end of the
\* path; C22 does not hold with it
RECURSIVE moveSegmentsToEnd(_, _, _, _)
moveSegmentsToEnd(b, segments, i, dt) ==
    IF i > Len(segments) THEN SelectSeq(b, LAMBDA ball : ball.distance < totalLength)
    ELSE moveSegmentsToEnd(applySpeed(b, segments[i], 1, moveStep(b, segments, i, dt)),
                           segments, i + 1, dt)

\* step 3: the loop over the segments
RECURSIVE moveSegments(_, _, _, _)
moveSegments(b, segments, i, dt) ==
    IF i > Len(segments) THEN b
    ELSE moveSegments(applySpeed(b, segments[i], 1, moveStep(b, segments, i, dt)),
                      segments, i + 1, dt)

\* a variant of the overlap resolution that pushes a ball only one radius past
\* its predecessor; C1 does not hold with it
RECURSIVE resolveFromRadius(_, _)
resolveFromRadius(b, i) ==
    IF i > Len(b) THEN b
    ELSE IF b[i].distance < b[i - 1].distance + diameter
         THEN resolveFromRadius([b EXCEPT ![i].distance = b[i - 1].distance + ballRadius],
                                i + 1)
         ELSE resolveFromRadius(b, i + 1)

\* a variant of update without step 4; C2 does not hold with it
resolveNothing(b) == b

\* step 4: the overlap resolution loop, from index i (1-based) on
RECURSIVE resolveFrom(_, _)
resolveFrom(b, i) ==
    IF i > Len(b) THEN b
    ELSE IF b[i].distance < b[i - 1].distance + diameter
         THEN resolveFrom([b EXCEPT ![i].distance = b[i - 1].distance + diameter], i + 1)
         ELSE resolveFrom(b, i + 1)

\* a variant of step 4 that sorts the array by distance again before it
\* resolves the overlaps; C24 does not hold with it
resolveSorted(b) == resolveFrom(sortBalls(b), 2)

resolveOverlaps(b) == resolveFrom(b, 2)

\* the inner while loop of step 5: the first index j (1-based) past the run
\* that starts at i
RECURSIVE runEnd(_, _, _)
runEnd(b, color, j) ==
    IF j <= Len(b) /\ b[j].color = color
       /\ b[j].distance - b[j - 1].distance <= diameter + epsilon
    THEN runEnd(b, color, j + 1)
    ELSE j

\* a variant of the match scan that removes three balls at a time, so that a
\* run of five goes in part; C3 does not hold with it
RECURSIVE matchScanByThree(_, _, _)
matchScanByThree(b, i, log) ==
    IF i > Len(b) THEN [balls |-> b, log |-> log]
    ELSE LET j == runEnd(b, b[i].color, i + 1)
             count == j - i
         IN  IF count >= 3
             THEN matchScanByThree(Splice(b, i - 1, 3), i, Append(log, 3))
             ELSE matchScanByThree(b, j, log)

\* a variant of the match scan that stops at the first run it removes; C19
\* does not hold with it
RECURSIVE matchScanFirst(_, _, _)
matchScanFirst(b, i, log) ==
    IF i > Len(b) THEN [balls |-> b, log |-> log]
    ELSE LET j == runEnd(b, b[i].color, i + 1)
             count == j - i
         IN  IF count >= 3
             THEN [balls |-> Splice(b, i - 1, count), log |-> Append(log, count)]
             ELSE matchScanFirst(b, j, log)

\* step 5: the match scan from index i (1-based); log collects the arguments
\* of the onMatch calls
RECURSIVE matchScan(_, _, _)
matchScan(b, i, log) ==
    IF i > Len(b) THEN [balls |-> b, log |-> log]
    ELSE LET j == runEnd(b, b[i].color, i + 1)
             count == j - i
         IN  IF count >= 3
             THEN matchScan(Splice(b, i - 1, count), i, Append(log, count))
             ELSE matchScan(b, j, log)

\* a variant of the spawn condition without the test of the cap; C11 does not
\* hold with it
spawnDueUncapped(timer, count, dt) == intervalElapsed(timer + dt)

\* step 1 of update calls spawnBall: the cap is not reached and the timer,
\* dt added, has reached the spawn interval
spawnDue(timer, count, dt) == count < maxBalls /\ intervalElapsed(timer + dt)

\* a variant of step 1 that leaves the spawn timer running after a spawn; C10
\* does not hold with it
spawnStepKeepTimer(b, timer, count, id, dt, c) ==
    LET counting == count < maxBalls
        timer1 == IF counting THEN timer + dt ELSE timer
        spawning == spawnDue(timer, count, dt)
    IN  [ balls |-> IF spawning THEN spawnBall(b, id, c) ELSE b,
          spawnTimer |-> timer1,
          spawnedCount |-> IF spawning THEN count + 1 ELSE count,
          nextId |-> IF spawning THEN id + 1 ELSE id,
          spawned |-> spawning ]

\* step 1 of update: the spawn timer and spawnBall, with c the colour
\* spawnBall draws when it is called
spawnStep(b, timer, count, id, dt, c) ==
    LET counting == count < maxBalls
        timer1 == IF counting THEN timer + dt ELSE timer
        spawning == spawnDue(timer, count, dt)
    IN  [ balls |-> IF spawning THEN spawnBall(b, id, c) ELSE b,
          spawnTimer |-> IF spawning THEN 0 ELSE timer1,
          spawnedCount |-> IF spawning THEN count + 1 ELSE count,
          nextId |-> IF spawning THEN id + 1 ELSE id,
          spawned |-> spawning ]

\* everything update(dt, onMatch) computes from the fields b, timer, count, id
\* of the chain: the new fields, the array after each step, and the arguments
\* of the onMatch calls
updateResult(b, timer, count, id, dt, c) ==
    LET s1 == spawnStep(b, timer, count, id, dt, c)
        b2 == sortBalls(s1.balls)
        b3 == moveSegments(b2, identifySegments(b2), 1, dt)
        b4 == resolveOverlaps(b3)
        scan == matchScan(b4, 1, <<>>)
        empty == Len(s1.balls) = 0
    IN  [ balls |-> IF empty THEN s1.balls ELSE scan.balls,
          spawnTimer |-> s1.spawnTimer,
          spawnedCount |-> s1.spawnedCount,
          nextId |-> s1.nextId,
          spawned |-> s1.spawned,
          sorted |-> IF empty THEN <<>> ELSE b2,
          moved |-> IF empty THEN <<>> ELSE b3,
          resolved |-> IF empty THEN <<>> ELSE b4,
          log |-> IF empty THEN <<>> ELSE scan.log ]

(***************************************************************************)
(* The queries.                                                            *)
(***************************************************************************)
\* a variant of hasReachedEnd without the test for an empty array, where the
\* missing last ball counts as arrived; C9 does not hold with it
hasReachedEndUnguarded(b) ==
    IF Len(b) = 0 THEN TRUE ELSE b[Len(b)].distance >= totalLength

\* a variant of hasReachedEnd that reads the first ball of the array instead
\* of the last; C12 does not hold with it
hasReachedEndFirst(b) ==
    IF Len(b) = 0 THEN FALSE ELSE b[1].distance >= totalLength

hasReachedEnd(b) ==
    IF Len(b) = 0 THEN FALSE ELSE b[Len(b)].distance >= totalLength

isEmpty(b) == Len(b) = 0

hasFinishedSpawning(count) == count >= maxBalls

(***************************************************************************)
(* insertBall and checkMatches.                                            *)
(***************************************************************************)
\* a variant of the loop of insertBall that pushes the first successor only;
\* C5 does not hold with it
pushForwardOnce(b, currentIdx) ==
    IF currentIdx >= Len(b) THEN b
    ELSE IF b[currentIdx + 1].distance - b[currentIdx].distance < ballRadius * 2
         THEN [b EXCEPT ![currentIdx + 1].distance =
                            b[currentIdx].distance + ballRadius * 2]
         ELSE b

\* the while loop of insertBall from currentIdx (here 1-based)
RECURSIVE pushForward(_, _)
pushForward(b, currentIdx) ==
    IF currentIdx >= Len(b) THEN b
    ELSE IF b[currentIdx + 1].distance - b[currentIdx].distance < ballRadius * 2
         THEN pushForward([b EXCEPT ![currentIdx + 1].distance =
                                        b[currentIdx].distance + ballRadius * 2],
                          currentIdx + 1)
         ELSE pushForward(b, currentIdx + 1)

\* a variant of insertBall that puts the new ball after the hit ball; C6 does
\* not hold with it
insertBallAfter(b, id, color, hitIndex) ==
    LET hitBall == b[hitIndex + 1]
        newBall == Ball(id, color, hitBall.distance + ballRadius * 2)
    IN  [ balls |-> pushForward(SpliceIn(b, hitIndex + 1, newBall), hitIndex + 2),
          ret |-> hitIndex + 1 ]

\* a variant of insertBall that gives the new ball the id of the hit ball
\* instead of a new one; C23 does not hold with it
insertBallSameId(b, id, color, hitIndex) ==
    LET hitBall == b[hitIndex + 1]
        newBall == Ball(hitBall.id, color, hitBall.distance)
    IN  [ balls |-> pushForward(SpliceIn(b, hitIndex, newBall), hitIndex + 1),
          ret |-> hitIndex ]

\* insertBall(projectile, hitIndex), hitIndex 0-based and valid
insertBall(b, id, color, hitIndex) ==
    LET hitBall == b[hitIndex + 1]
        newBall == Ball(id, color, hitBall.distance)
    IN  [ balls |-> pushForward(SpliceIn(b, hitIndex, newBall), hitIndex + 1),
          ret |-> hitIndex ]

\* the backward loop of checkMatches: the (1-based) index start ends at
RECURSIVE matchStart(_, _, _)
matchStart(b, color, i) ==
    IF i >= 1 /\ b[i].color = color THEN matchStart(b, color, i - 1) ELSE i + 1

\* the forward loop of checkMatches: the (1-based) index of the last match
RECURSIVE matchEnd(_, _, _)
matchEnd(b, color, i) ==
    IF i <= Len(b) /\ b[i].color = color THEN matchEnd(b, color, i + 1) ELSE i - 1

\* a variant of checkMatches without the backward loop; C7 does not hold with
\* it
checkMatchesForward(b, startIndex) ==
    IF startIndex < 0 \/ startIndex >= Len(b) THEN [balls |-> b, ret |-> 0]
    ELSE LET color == b[startIndex + 1].color
             start == startIndex + 1
             matchCount == matchEnd(b, color, startIndex + 2) - start + 1
         IN  IF matchCount >= 3
             THEN [balls |-> Splice(b, start - 1, matchCount), ret |-> matchCount]
             ELSE [balls |-> b, ret |-> 0]

\* a variant of checkMatches that moves an index outside the array to the
\* nearest end instead of returning 0; C8 does not hold with it
checkMatchesNearest(b, startIndex) ==
    IF Len(b) = 0 THEN [balls |-> b, ret |-> 0]
    ELSE LET nearest == IF startIndex < 0 THEN 0
                        ELSE IF startIndex >= Len(b) THEN Len(b) - 1
                        ELSE startIndex
             color == b[nearest + 1].color
             start == matchStart(b, color, nearest)
             matchCount == matchEnd(b, color, nearest + 2) - start + 1
         IN  IF matchCount >= 3
             THEN [balls |-> Splice(b, start - 1, matchCount), ret |-> matchCount]
             ELSE [balls |-> b, ret |-> 0]

\* checkMatches(startIndex), startIndex 0-based
checkMatches(b, startIndex) ==
    IF startIndex < 0 \/ startIndex >= Len(b) THEN [balls |-> b, ret |-> 0]
    ELSE LET color == b[startIndex + 1].color
             start == matchStart(b, color, startIndex)
             matchCount == matchEnd(b, color, startIndex + 2) - start + 1
         IN  IF matchCount >= 3
             THEN [balls |-> Splice(b, start - 1, matchCount), ret |-> matchCount]
             ELSE [balls |-> b, ret |-> 0]

(***************************************************************************)
(* checkCollision.                                                         *)
(***************************************************************************)
\* the result of checkCollision when no ball is hit
null == [index |-> 0 - 1, x |-> 0, y |-> 0]

\* dist < ball.radius + projectile.radius for the ball b[i] (1-based), whose
\* radius is ballRadius, with both sides of the comparison squared
touches(b, p, projectile, i) ==
    LET pos == getPointAt(p, b[i].distance).ret
        dx == pos.x - projectile.x
        dy == pos.y - projectile.y
        reach == ballRadius + projectile.radius
    IN  (dx * dx) + (dy * dy) < reach * reach

\* the loop of checkCollision from index i (1-based)
RECURSIVE collisionScan(_, _, _, _)
collisionScan(b, p, projectile, i) ==
    IF i > Len(b) THEN null
    ELSE IF touches(b, p, projectile, i)
         THEN LET pos == getPointAt(p, b[i].distance).ret
              IN  [index |-> i - 1, x |-> pos.x, y |-> pos.y]
         ELSE collisionScan(b, p, projectile, i + 1)

\* a variant of checkCollision that returns the last ball hit, not the first;
\* C14 does not hold with it
RECURSIVE collisionScanDown(_, _, _, _)
collisionScanDown(b, p, projectile, i) ==
    IF i < 1 THEN null
    ELSE IF touches(b, p, projectile, i)
         THEN LET pos == getPointAt(p, b[i].distance).ret
              IN  [index |-> i - 1, x |-> pos.x, y |-> pos.y]
         ELSE collisionScanDown(b, p, projectile, i - 1)

checkCollisionLast(b, p, projectile) ==
    [balls |-> b, path |-> p, ret |-> collisionScanDown(b, p, projectile, Len(b))]

\* chain.checkCollision(projectile): the array and the path after the call and
\* the value returned (index, x and y of the hit, or null)
checkCollision(b, p, projectile) ==
    [balls |-> b, path |-> p, ret |-> collisionScan(b, p, projectile, 1)]

(***************************************************************************)
(* The game (class Game).  The variable game holds its fields, the number  *)
(* of loop callbacks that requestAnimationFrame has pending, and a record  *)
(* of its latest operation:                                                *)
(*   frames        the pending loop callbacks                              *)
(*   cooldown      shooter.cooldown, in units of 1/110 s                   *)
(*   ended         the onGameOver and onVictory calls since the level was  *)
(*                 started                                                 *)
(*   op            the latest operation                                    *)
(*   ticked        it called chain.update                                  *)
(*   tested        the number of its checkCollision calls                  *)
(*   afterTick     the array right after its chain.update call             *)
(*   projectiles0  the projectile list before it                           *)
(***************************************************************************)
\* the fields after the constructor
NewGame ==
    [ isRunning |-> FALSE, isPaused |-> FALSE, score |-> 0, level |-> level,
      projectiles |-> <<>>, cooldown |-> 0, frames |-> 0, ended |-> <<>>,
      op |-> "new", ticked |-> FALSE, tested |-> 0, afterTick |-> <<>>,
      projectiles0 |-> <<>> ]

(***************************************************************************)
(* The state machine.  The variable last records the latest call: its      *)
(* name, dt, the index and colour of an insertion, the arguments of the    *)
(* onMatch calls, the return value, and what happened inside the call:     *)
(*   balls0    the array before the call                                   *)
(*   inserted  the number of insertBall calls since the constructor        *)
(*   reported  the sum of the onMatch arguments and of the results of      *)
(*             checkMatches since the constructor                          *)
(*   timer0, count0, id0  spawnTimer, spawnedCount and nextId before it    *)
(*   sorted    the array after the spawn step and the sort of update       *)
(*   moved     the array after the motion step of update                   *)
(*   resolved  the array after the overlap resolution of update, which is  *)
(*             the array its match scan starts from                        *)
(*   spawned   update called spawnBall                                     *)
(*   unsorted  the motion step left the array out of ascending order       *)
(*   clamped   the overlap resolution moved a ball                         *)
(*   inRange   the index given to checkMatches was an index of the array   *)
(*   distance, point  the argument and the result of getPointAt            *)
(*   projectile, hit  the argument and the result of checkCollision        *)
(***************************************************************************)
NoCall ==
    [ op |-> "new", dt |-> 0, index |-> 0, color |-> 0, log |-> <<>>, ret |-> 0,
      balls0 |-> <<>>, timer0 |-> 0, count0 |-> 0, id0 |-> 0,
      sorted |-> <<>>, moved |-> <<>>, resolved |-> <<>>,
      distance |-> 0, point |-> [x |-> 0, y |-> 0, angle |-> 0],
      projectile |-> [x |-> 0, y |-> 0, radius |-> 0], hit |-> null,
      spawned |-> FALSE, unsorted |-> FALSE, clamped |-> FALSE, inRange |-> FALSE,
      inserted |-> 0, reported |-> 0 ]

\* the record of a call made in the current state
Called(op) ==
    [NoCall EXCEPT !.op = op, !.timer0 = spawnTimer, !.count0 = spawnedCount,
                   !.id0 = nextId, !.inserted = last.inserted,
                   !.reported = last.reported]

\* the sum of the elements of a sequence of numbers
RECURSIVE Sum(_)
Sum(q) == IF Len(q) = 0 THEN 0 ELSE q[1] + Sum(Tail(q))

Ascending(b) == \A k \in 1..(Len(b) - 1) : b[k].distance <= b[k + 1].distance

\* the constructor: preSpawnBalls(1) puts one ball of a random colour at 0
Init ==
    /\ \E c \in colors : balls = <<Ball(0, c, 0)>>
    /\ spawnTimer = 0
    /\ spawnedCount = 1
    /\ nextId = 1
    /\ path = generateSpiral(spiralPoints)
    /\ last = NoCall
    /\ game = NewGame

\* chain.update(dt, onMatch)
Update(dt, c) ==
    /\ (Len(balls) > 0 => balls[Len(balls)].distance < MaxDistance)
    /\ IF spawnDue(spawnTimer, spawnedCount, dt) THEN c \in spawnColors(balls) ELSE c = 0
    /\ LET r == updateResult(balls, spawnTimer, spawnedCount, nextId, dt, c) IN
       /\ balls' = r.balls
       /\ spawnTimer' = r.spawnTimer
       /\ spawnedCount' = r.spawnedCount
       /\ nextId' = r.nextId
       /\ UNCHANGED <<path, game>>
       /\ last' = [Called("update") EXCEPT !.dt = dt, !.balls0 = balls,
                       !.reported = @ + Sum(r.log),
                       !.log = r.log, !.sorted = r.sorted, !.moved = r.moved,
                       !.resolved = r.resolved, !.spawned = r.spawned,
                       !.unsorted = ~Ascending(r.moved),
                       !.clamped = (r.resolved # r.moved)]

\* chain.insertBall(projectile, hitIndex) with the index of a live ball
InsertBall(c, hitIndex) ==
    LET r == insertBall(balls, nextId, c, hitIndex) IN
    /\ hitIndex \in 0..(Len(balls) - 1)
    /\ balls[Len(balls)].distance < MaxDistance
    /\ nextId - spawnedCount < MaxTokens - SpawnCap
    /\ balls' = r.balls
    /\ nextId' = nextId + 1
    /\ UNCHANGED <<spawnTimer, spawnedCount, path, game>>
    /\ last' = [Called("insertBall") EXCEPT !.color = c, !.index = hitIndex,
                    !.inserted = @ + 1,
                    !.balls0 = balls, !.ret = r.ret]

\* chain.checkMatches(startIndex) with any integer index
CheckMatches(startIndex) ==
    LET r == checkMatches(balls, startIndex) IN
    /\ balls' = r.balls
    /\ UNCHANGED <<spawnTimer, spawnedCount, nextId, path, game>>
    /\ last' = [Called("checkMatches") EXCEPT !.ret = r.ret, !.balls0 = balls,
                    !.reported = @ + r.ret,
                    !.inRange = (startIndex \in 0..(Len(balls) - 1))]

\* the indices checkMatches is called with: every index of the array, one
\* below and one above
Pivots(b) == (0 - 1)..Len(b)

Next ==
    \/ \E dt \in Dts, c \in colors \cup {0} : Update(dt, c)
    \/ \E c \in colors, hitIndex \in 0..(Len(balls) - 1) : InsertBall(c, hitIndex)
    \/ \E startIndex \in Pivots(balls) : CheckMatches(startIndex)

Spec == Init /\ [][Next]_vars

(***************************************************************************)
(* The queries getPointAt and checkCollision, explored on the path of the  *)
(* constructor and on chains as update, insertBall and checkMatches leave  *)
(* them: in ascending order, without overlap, with distinct ids.           *)
(***************************************************************************)
\* the distances getPointAt is called with
Distances == (0 - Margin)..(TotalLength + Margin)

\* the distance of the first ball of a chain and the steps from a ball to the
\* next: in contact, or with a gap
Starts == {0 - 22, 0, 28}
Steps == {diameter, diameter + 28}

\* the chains of n balls from a first ball at distance start
RECURSIVE ChainsFrom(_, _)
ChainsFrom(start, n) ==
    IF n = 1 THEN {<<Ball(0, 1, start)>>}
    ELSE {Append(b, Ball(n - 1, 1 + (n % NumColors), b[n - 1].distance + step)) :
              b \in ChainsFrom(start, n - 1), step \in Steps}

Chains ==
    {<<>>} \cup UNION {ChainsFrom(start, n) : start \in Starts, n \in 1..MaxChain}

\* the projectiles checkCollision is called with (Renderer.js:591: radius 18)
Projectiles ==
    {[x |-> x, y |-> y, radius |-> 18 * 2] :
         x \in {0 - 100, 0 - 28, 0, 40, 72, 100, 160},
         y \in {0 - 60, 0, 40, 100, 140}}

QueryInit ==
    /\ balls \in Chains
    /\ spawnTimer = 0
    /\ spawnedCount = maxBalls
    /\ nextId = MaxChain
    /\ path = generateSpiral(spiralPoints)
    /\ last = NoCall
    /\ game = NewGame

\* path.getPointAt(distance)
GetPointAt(distance) ==
    LET r == getPointAt(path, distance) IN
    /\ path' = r.path
    /\ UNCHANGED <<balls, spawnTimer, spawnedCount, nextId, game>>
    /\ last' = [Called("getPointAt") EXCEPT !.distance = distance, !.point = r.ret]

\* chain.checkCollision(projectile)
CheckCollision(projectile) ==
    LET r == checkCollision(balls, path, projectile) IN
    /\ balls' = r.balls
    /\ path' = r.path
    /\ UNCHANGED <<spawnTimer, spawnedCount, nextId, game>>
    /\ last' = [Called("checkCollision") EXCEPT !.projectile = projectile,
                    !.balls0 = balls, !.hit = r.ret]

QueryNext ==
    \/ \E distance \in Distances : GetPointAt(distance)
    \/ \E projectile \in Projectiles : CheckCollision(projectile)

QuerySpec == QueryInit /\ [][QueryNext]_vars

(***************************************************************************)
(* Repeated ticks with one dt and no other call, started from a chain of   *)
(* two segments with the spawn cap reached: a segment 0 of one or two      *)
(* balls, a gap, and one more ball.  Such chains are what the removal of a *)
(* run from the middle of a chain and the ticks after it leave.  The dt of *)
(* the ticks is kept in last.dt.                                           *)
(***************************************************************************)
\* the dt values of the repeated ticks
FixedDts == {2, 4, BigDt}

\* the gaps: every width beyond diameter + epsilon up to MaxGap
Gaps == (epsilon + 1)..MaxGap

GappedChains ==
    {<<Ball(0, 1, 0), Ball(1, 2, diameter + gap)>> : gap \in Gaps}
        \cup {<<Ball(0, 1, 0), Ball(1, 2, diameter), Ball(2, 1, (2 * diameter) + gap)>> :
                  gap \in Gaps}

TickInit ==
    /\ balls \in GappedChains
    /\ spawnTimer = 0
    /\ spawnedCount = maxBalls
    /\ nextId = MaxTokens
    /\ path = generateSpiral(spiralPoints)
    /\ \E dt \in FixedDts : last = [NoCall EXCEPT !.dt = dt]
    /\ game = NewGame

\* the next tick, with the dt of the one before
Tick == Update(last.dt, 0)

TickSpec == TickInit /\ [][Tick]_vars /\ WF_vars(Tick)

(***************************************************************************)
(* The game: start, restart, nextLevel, togglePause, the mousedown handler *)
(* and the loop callback with Game.update.  The canvas is the rectangle    *)
(* the path of the model spans.  A projectile keeps its position to the    *)
(* half pixel: its step of 800 px/s * dt is rounded down to it.  The chain *)
(* of every level is explored with the parameters of level 1.  The         *)
(* variable last belongs to the chain-level specifications and is left     *)
(* alone here.                                                             *)
(***************************************************************************)
width == LegA
height == LegB

\* shooter.cooldownTime, 0.3 s, in units of 1/110 s
cooldownTime == (3 * 110) \div 10

\* shooter.radius and the radius of a projectile, in half pixels
shooterRadius == 25 * 2
projectileRadius == 18 * 2

\* the directions the shooter is aimed in: <<cos, sin>> of its angle
Directions == {<<1, 0>>, <<0, 1>>, <<0 - 1, 0>>, <<0, 0 - 1>>}

\* v * dt in half pixels for v in px/s and dt in units of 5/22 s
displacement(v, dt) == (v * 2 * 5 * dt) \div 22

\* the fields of the chain as one record
Chain(b, timer, count, id) ==
    [balls |-> b, spawnTimer |-> timer, spawnedCount |-> count, nextId |-> id]

\* new BallChain(path, level): one ball of colour c at distance 0
NewChain(c) == Chain(<<Ball(0, c, 0)>>, 0, 1, 1)

\* the record of an operation that starts in the state g
Did(g, op) ==
    [g EXCEPT !.op = op, !.ticked = FALSE, !.tested = 0, !.afterTick = <<>>,
              !.projectiles0 = g.projectiles]

\* shooter.shoot() with the shooter aimed in the direction dir
shoot(c, dir) ==
    [ x |-> (width \div 2) + (dir[1] * shooterRadius),
      y |-> (height \div 2) + (dir[2] * shooterRadius),
      vx |-> dir[1] * 800, vy |-> dir[2] * 800,
      color |-> c, radius |-> projectileRadius ]

\* shooter.update(dt)
shooterUpdate(cooldown, dt) == IF cooldown > 0 THEN cooldown - (25 * dt) ELSE cooldown

\* the loop of Game.update over the projectiles, from index i (1-based) down;
\* st holds the projectile list, the chain and the score
RECURSIVE processProjectiles(_, _, _, _)
processProjectiles(st, p, i, dt) ==
    IF i < 1 THEN st
    ELSE LET proj == [st.projectiles[i] EXCEPT
                         !.x = @ + displacement(st.projectiles[i].vx, dt),
                         !.y = @ + displacement(st.projectiles[i].vy, dt)]
             moved == [st.projectiles EXCEPT ![i] = proj]
             outside == \/ proj.x < 0 - (50 * 2)
                        \/ proj.x > width + (50 * 2)
                        \/ proj.y < 0 - (50 * 2)
                        \/ proj.y > height + (50 * 2)
             collision == checkCollision(st.chain.balls, p, proj).ret
             ins == insertBall(st.chain.balls, st.chain.nextId, proj.color,
                               collision.index)
             matches == checkMatches(ins.balls, collision.index)
         IN  IF outside
             THEN processProjectiles([st EXCEPT !.projectiles = Splice(moved, i - 1, 1)],
                                     p, i - 1, dt)
             ELSE IF collision = null
             THEN processProjectiles([st EXCEPT !.projectiles = moved,
                                                !.tested = @ + 1],
                                     p, i - 1, dt)
             ELSE processProjectiles(
                      [st EXCEPT !.projectiles = Splice(moved, i - 1, 1),
                                 !.tested = @ + 1,
                                 !.chain.balls = matches.balls,
                                 !.chain.nextId = @ + 1,
                                 !.score = @ + (matches.ret * 100)],
                      p, i - 1, dt)

\* Game.update up to the chain tick: shooter.update and chain.update with the
\* onMatch callback that adds to the score
tickChain(g, ch, dt, c) ==
    LET r == updateResult(ch.balls, ch.spawnTimer, ch.spawnedCount, ch.nextId, dt, c)
    IN  [ game |-> [g EXCEPT !.cooldown = shooterUpdate(@, dt),
                             !.score = @ + (100 * Sum(r.log)),
                             !.ticked = TRUE,
                             !.afterTick = r.balls],
          chain |-> Chain(r.balls, r.spawnTimer, r.spawnedCount, r.nextId) ]

\* a variant of Game.update after the chain tick that goes on to the
\* projectiles after the end of the level; C26 does not hold with it
afterTickThrough(g, ch, p, dt) ==
    LET g1 == IF hasReachedEnd(ch.balls)
              THEN [g EXCEPT !.isRunning = FALSE, !.ended = Append(@, "onGameOver")]
              ELSE IF isEmpty(ch.balls) /\ hasFinishedSpawning(ch.spawnedCount)
              THEN [g EXCEPT !.isRunning = FALSE, !.ended = Append(@, "onVictory")]
              ELSE g
        st == processProjectiles([projectiles |-> g1.projectiles, chain |-> ch,
                                  score |-> g1.score, tested |-> 0],
                                 p, Len(g1.projectiles), dt)
    IN  [ game |-> [g1 EXCEPT !.projectiles = st.projectiles, !.score = st.score,
                              !.tested = st.tested],
          chain |-> st.chain ]

\* Game.update after the chain tick: the failure check, the victory check and
\* the loop over the projectiles
afterTick(g, ch, p, dt) ==
    IF hasReachedEnd(ch.balls)
    THEN [ game |-> [g EXCEPT !.isRunning = FALSE, !.ended = Append(@, "onGameOver")],
           chain |-> ch ]
    ELSE IF isEmpty(ch.balls) /\ hasFinishedSpawning(ch.spawnedCount)
    THEN [ game |-> [g EXCEPT !.isRunning = FALSE, !.ended = Append(@, "onVictory")],
           chain |-> ch ]
    ELSE LET st == processProjectiles([projectiles |-> g.projectiles, chain |-> ch,
                                       score |-> g.score, tested |-> 0],
                                      p, Len(g.projectiles), dt)
         IN  [ game |-> [g EXCEPT !.projectiles = st.projectiles, !.score = st.score,
                                  !.tested = st.tested],
               chain |-> st.chain ]

\* a variant of Game.update without the test of isPaused; C25 does not hold
\* with it
updateAlways(g, ch, p, dt, c) ==
    LET t == tickChain(g, ch, dt, c) IN afterTick(t.game, t.chain, p, dt)

\* Game.update(dt); c is the colour drawn if the tick spawns a ball
update(g, ch, p, dt, c) ==
    IF g.isPaused THEN [game |-> g, chain |-> ch]
    ELSE LET t == tickChain(g, ch, dt, c) IN afterTick(t.game, t.chain, p, dt)

\* the constructor of Game
GameInit ==
    /\ \E c \in colors : balls = <<Ball(0, c, 0)>>
    /\ spawnTimer = 0
    /\ spawnedCount = 1
    /\ nextId = 1
    /\ path = generateSpiral(spiralPoints)
    /\ last = NoCall
    /\ game = NewGame

\* resetLevel(): a new path, a new chain, a new shooter, no projectiles
ResetLevel(g, c) ==
    /\ path' = generateSpiral(spiralPoints)
    /\ balls' = NewChain(c).balls
    /\ spawnTimer' = NewChain(c).spawnTimer
    /\ spawnedCount' = NewChain(c).spawnedCount
    /\ nextId' = NewChain(c).nextId
    /\ game' = [g EXCEPT !.projectiles = <<>>, !.cooldown = 0, !.ended = <<>>,
                         !.isRunning = TRUE, !.isPaused = FALSE,
                         !.frames = @ + 1]

\* start() and restart()
Start(c) ==
    /\ game.frames < MaxLoops
    /\ ResetLevel([Did(game, "start") EXCEPT !.score = 0, !.level = 1], c)
    /\ UNCHANGED last

\* nextLevel()
NextLevel(c) ==
    /\ game.frames < MaxLoops
    /\ game.level < MaxLevel
    /\ ResetLevel([Did(game, "nextLevel") EXCEPT !.level = @ + 1], c)
    /\ UNCHANGED last

\* togglePause() while the game is running; it returns at once when not
TogglePause ==
    /\ game.isRunning
    /\ game' = [Did(game, "togglePause") EXCEPT !.isPaused = ~@]
    /\ UNCHANGED <<balls, spawnTimer, spawnedCount, nextId, path, last>>

\* the mousedown handler when it pushes a projectile: the game is running and
\* not paused and the shooter has cooled down
MouseDown(c, dir) ==
    /\ game.isRunning /\ ~game.isPaused
    /\ game.cooldown <= 0
    /\ Len(game.projectiles) < MaxProjectiles
    /\ (nextId - spawnedCount) + Len(game.projectiles) < MaxTokens - SpawnCap
    /\ game' = [Did(game, "mousedown") EXCEPT
                    !.projectiles = Append(@, shoot(c, dir)),
                    !.cooldown = cooldownTime]
    /\ UNCHANGED <<balls, spawnTimer, spawnedCount, nextId, path, last>>

\* loop(timestamp): one pending callback runs; it ends its loop when the game
\* is not running, and calls update and asks for the next frame when it is
Loop(dt, c) ==
    LET r == update(Did(game, "loop"), Chain(balls, spawnTimer, spawnedCount, nextId),
                    path, dt, c)
    IN  /\ game.frames > 0
        /\ IF game.isRunning /\ ~game.isPaused /\ spawnDue(spawnTimer, spawnedCount, dt)
           THEN c \in spawnColors(balls)
           ELSE c = 0
        /\ IF ~game.isRunning
           THEN /\ game' = [Did(game, "loop") EXCEPT !.frames = @ - 1]
                /\ UNCHANGED <<balls, spawnTimer, spawnedCount, nextId>>
           ELSE /\ game' = r.game
                /\ balls' = r.chain.balls
                /\ spawnTimer' = r.chain.spawnTimer
                /\ spawnedCount' = r.chain.spawnedCount
                /\ nextId' = r.chain.nextId
        /\ UNCHANGED <<path, last>>

\* start() and restart() are taken at any time; nextLevel() is called from the
\* button of the victory screen, which onVictory shows
GameNext ==
    \/ \E c \in colors : Start(c)
    \/ game.ended = <<"onVictory">> /\ \E c \in colors : NextLevel(c)
    \/ TogglePause
    \/ \E c \in colors, dir \in Directions : MouseDown(c, dir)
    \/ \E dt \in Dts, c \in colors \cup {0} : Loop(dt, c)

GameSpec == GameInit /\ [][GameNext]_vars

(***************************************************************************)
(* Vocabulary of the properties.                                           *)
(***************************************************************************)
\* adjacent balls of b are at least a diameter apart
NonOverlap(b) ==
    \A k \in 1..(Len(b) - 1) : b[k + 1].distance - b[k].distance >= diameter

\* b[k] and b[k+1] have the same colour and touch (gap <= diameter + epsilon)
Linked(b, k) ==
    /\ b[k + 1].color = b[k].color
    /\ b[k + 1].distance - b[k].distance <= diameter + epsilon

\* lo..hi is a maximal run of same-colour balls in contact
IsRun(b, lo, hi) ==
    /\ 1 <= lo /\ lo <= hi /\ hi <= Len(b)
    /\ \A k \in lo..(hi - 1) : Linked(b, k)
    /\ lo = 1 \/ ~Linked(b, lo - 1)
    /\ hi = Len(b) \/ ~Linked(b, hi)

\* the maximal runs of b of length 3 or more, as pairs <<lo, hi>>
LongRuns(b) ==
    {r \in (1..Len(b)) \X (1..Len(b)) : IsRun(b, r[1], r[2]) /\ r[2] - r[1] + 1 >= 3}

\* the elements of the set S of integers in ascending order
Ordered(S) ==
    [j \in 1..Cardinality(S) |->
        CHOOSE x \in S : Cardinality({y \in S : y < x}) = j - 1]

\* b without the positions lo..hi of the pairs in R
Without(b, R) ==
    LET keep == {k \in 1..Len(b) : \A r \in R : k < r[1] \/ k > r[2]}
        at == Ordered(keep)
    IN  [j \in 1..Cardinality(keep) |-> b[at[j]]]

\* the lengths of the runs of R, in ascending order of position
Lengths(R) ==
    LET lo == Ordered({r[1] : r \in R})
    IN  [j \in 1..Cardinality(R) |->
            LET r == CHOOSE q \in R : q[1] = lo[j] IN r[2] - r[1] + 1]

Ids(b) == {b[k].id : k \in 1..Len(b)}

(***************************************************************************)
(* C1  Non-overlap: at the end of every update(), whatever dt and whatever *)
(* insertBall and checkMatches calls came before, adjacent balls of the    *)
(* array are at least one diameter apart.                                  *)
(***************************************************************************)
C1_NonOverlapAfterUpdate == last.op = "update" => NonOverlap(balls)

\* an update whose overlap resolution had to push a ball forward
C1_Witness ==
    /\ last.op = "update"
    /\ last.clamped
    /\ Len(balls) >= 2

(***************************************************************************)
(* C2  Order: after every update() the array is sorted by ascending        *)
(* distance, although the motion step runs after the sort.                 *)
(***************************************************************************)
C2_SortedAfterUpdate ==
    last.op = "update" =>
        \A k \in 1..(Len(balls) - 1) : balls[k].distance <= balls[k + 1].distance

\* an update whose motion step pulled a segment back behind its predecessor
C2_Witness ==
    /\ last.op = "update"
    /\ last.unsorted
    /\ Len(balls) >= 2

(***************************************************************************)
(* C3  The match scan of update() removes every maximal run of 3 or more   *)
(* same-colour balls in contact, whole, and calls onMatch once per run     *)
(* with the length of the run; nothing else is removed.                    *)
(***************************************************************************)
C3_ScanRemovesLongRuns ==
    last.op = "update" =>
        LET runs == LongRuns(last.resolved) IN
        /\ balls = Without(last.resolved, runs)
        /\ last.log = Lengths(runs)

\* a run of five removed with a single callback
C3_Witness ==
    /\ last.op = "update"
    /\ last.log = <<5>>

(***************************************************************************)
(* C4  A maximal run of exactly 2 same-colour balls in contact is never    *)
(* removed, neither by the match scan of update() nor by checkMatches for  *)
(* any pivot: whenever two adjacent balls of the array the latest call     *)
(* removed from form such a run, both are still in the chain after it.     *)
(* The code does not have this property: checkMatches compares colours     *)
(* only, and removes such a pair together with a ball of the same colour   *)
(* that is not in contact with it.                                         *)
(***************************************************************************)
\* the array the removals of the latest call were made from
RemovedFrom ==
    IF last.op = "update" THEN last.resolved
    ELSE IF last.op = "checkMatches" THEN last.balls0
    ELSE <<>>

C4_PairsNeverRemoved ==
    \A k \in 1..(Len(RemovedFrom) - 1) :
        IsRun(RemovedFrom, k, k + 1) =>
            {RemovedFrom[k].id, RemovedFrom[k + 1].id} \subseteq Ids(balls)

\* the part of C4 about update(), which the code does have: its match scan
\* keeps every maximal run of exactly 2
C4_ScanKeepsPairs ==
    last.op = "update" =>
        \A k \in 1..(Len(last.resolved) - 1) :
            IsRun(last.resolved, k, k + 1) =>
                {last.resolved[k].id, last.resolved[k + 1].id} \subseteq Ids(balls)

(***************************************************************************)
(* C5  Right after insertBall(projectile, hitIndex), every ball from index *)
(* hitIndex on is at least a diameter behind its successor, and a chain    *)
(* that was free of overlap before the call is free of overlap after it.   *)
(***************************************************************************)
C5_InsertSpacing ==
    last.op = "insertBall" =>
        /\ \A k \in (last.index + 1)..(Len(balls) - 1) :
               balls[k + 1].distance - balls[k].distance >= diameter
        /\ NonOverlap(last.balls0) => NonOverlap(balls)

\* an insertion at the front whose push went through two successors
C5_Witness ==
    /\ last.op = "insertBall"
    /\ last.index = 0
    /\ Len(balls) >= 3
    /\ balls[2].distance = balls[1].distance + diameter
    /\ balls[3].distance = balls[2].distance + diameter

(***************************************************************************)
(* C6  insertBall(projectile, hitIndex) makes the chain one longer, puts a *)
(* ball of the projectile's colour and a fresh id at index hitIndex at the *)
(* distance the hit ball had, leaves the balls below hitIndex as they      *)
(* were, moves the hit ball to index hitIndex + 1 at least a diameter      *)
(* further, and returns hitIndex.                                          *)
(***************************************************************************)
C6_InsertPlacement ==
    last.op = "insertBall" =>
        LET h == last.index + 1
            old == last.balls0
        IN  /\ Len(balls) = Len(old) + 1
            /\ balls[h].color = last.color
            /\ balls[h].id \notin Ids(old)
            /\ balls[h].id >= last.id0 /\ balls[h].id < nextId
            /\ balls[h].distance = old[h].distance
            /\ \A k \in 1..(h - 1) : balls[k] = old[k]
            /\ balls[h + 1].id = old[h].id
            /\ balls[h + 1].color = old[h].color
            /\ balls[h + 1].distance >= balls[h].distance + diameter
            /\ last.ret = last.index

\* [red@0, blue@36] with a red insert at index 1: [red@0, red@36, blue@72]
C6_Witness ==
    /\ last.op = "insertBall"
    /\ last.index = 1
    /\ last.ret = 1
    /\ Len(balls) = 3
    /\ balls[1].distance = 0
    /\ balls[2].distance = diameter
    /\ balls[3].distance = 2 * diameter
    /\ balls[1].color = balls[2].color
    /\ balls[3].color # balls[2].color
    /\ balls[2].id = nextId - 1

(***************************************************************************)
(* C7  For a pivot inside the array, checkMatches(pivot) takes the maximal *)
(* stretch of balls of the pivot's colour around the pivot (colour only);  *)
(* if it has c >= 3 balls it removes exactly those and returns c, leaving  *)
(* the other balls and their order untouched; otherwise it returns 0 and   *)
(* changes nothing.                                                        *)
(***************************************************************************)
\* lo..hi is the maximal stretch of balls of the colour of b[p] around p
IsStretch(b, p, lo, hi) ==
    /\ 1 <= lo /\ lo <= p /\ p <= hi /\ hi <= Len(b)
    /\ \A k \in lo..hi : b[k].color = b[p].color
    /\ lo = 1 \/ b[lo - 1].color # b[p].color
    /\ hi = Len(b) \/ b[hi + 1].color # b[p].color

C7_PivotScan ==
    [][ \A p \in 0..(Len(balls) - 1) :
            (last'.op = "checkMatches" /\ CheckMatches(p)) =>
                \E lo \in 1..(p + 1), hi \in (p + 1)..Len(balls) :
                    /\ IsStretch(balls, p + 1, lo, hi)
                    /\ IF hi - lo + 1 >= 3
                       THEN /\ balls' = Without(balls, {<<lo, hi>>})
                            /\ last'.ret = hi - lo + 1
                       ELSE /\ balls' = balls
                            /\ last'.ret = 0 ]_vars

\* a stretch of three removed from between two balls that stay
C7_Witness ==
    /\ last.op = "checkMatches"
    /\ last.ret = 3
    /\ Len(balls) = 2

(***************************************************************************)
(* C8  checkMatches(p) with p < 0 or p >= the number of balls (any p on    *)
(* an empty chain) returns 0, raises no error, and changes nothing.        *)
(***************************************************************************)
C8_OutOfRangePivot ==
    (last.op = "checkMatches" /\ ~last.inRange) =>
        /\ last.ret = 0
        /\ balls = last.balls0
        /\ spawnTimer = last.timer0
        /\ spawnedCount = last.count0
        /\ nextId = last.id0

\* a call on an empty chain
C8_Witness ==
    /\ last.op = "checkMatches"
    /\ ~last.inRange
    /\ balls = <<>>

(***************************************************************************)
(* C9  hasReachedEnd() and (isEmpty() and hasFinishedSpawning()) are never *)
(* both true.                                                              *)
(***************************************************************************)
C9_SignalsExclusive ==
    ~(hasReachedEnd(balls) /\ isEmpty(balls) /\ hasFinishedSpawning(spawnedCount))

\* after a tick the chain is cleared with the spawn cap reached
C9_Witness ==
    /\ last.op = "update"
    /\ isEmpty(balls)
    /\ hasFinishedSpawning(spawnedCount)

(***************************************************************************)
(* C10  One update(dt) raises spawnedCount by exactly 1 when               *)
(* spawnedCount < maxBalls and spawnTimer + dt >= spawnInterval, and then  *)
(* sets the timer to 0; otherwise it leaves spawnedCount alone.            *)
(***************************************************************************)
C10_SpawnCadence ==
    last.op = "update" =>
        IF last.count0 < maxBalls /\ (last.timer0 + last.dt) * speed >= diameter
        THEN spawnedCount = last.count0 + 1 /\ spawnTimer = 0
        ELSE spawnedCount = last.count0

\* a tick that spans four spawn intervals and spawns one ball
C10_Witness ==
    /\ last.op = "update"
    /\ last.spawned
    /\ last.dt = BigDt
    /\ BigDt * speed >= 4 * diameter

(***************************************************************************)
(* C11  Spawn cap: spawnedCount never exceeds maxBalls, the ball of the    *)
(* constructor counted; no call lowers it; and an update() that starts     *)
(* with the cap reached spawns nothing: it creates no id, so every ball    *)
(* it leaves was in the chain before.                                      *)
(***************************************************************************)
C11_SpawnCap ==
    /\ spawnedCount <= maxBalls
    /\ spawnedCount >= last.count0
    /\ (last.op = "update" /\ last.count0 >= maxBalls) =>
           /\ ~last.spawned
           /\ hasFinishedSpawning(spawnedCount)
           /\ nextId = last.id0
           /\ \A k \in 1..Len(balls) : balls[k].id < last.id0

\* a long tick on a chain that has balls and has reached the cap
C11_Witness ==
    /\ last.op = "update"
    /\ last.count0 >= maxBalls
    /\ last.dt = BigDt
    /\ Len(balls) > 0

(***************************************************************************)
(* C12  In every reachable state hasReachedEnd() is true exactly when some *)
(* ball of the chain has distance >= path.totalLength: the last element of *)
(* the array, which it reads, is the ball of largest distance; on an empty *)
(* chain it is false.                                                      *)
(***************************************************************************)
C12_ReachedEndQuery ==
    /\ hasReachedEnd(balls) <=>
           \E k \in 1..Len(balls) : balls[k].distance >= totalLength
    /\ Len(balls) = 0 => ~hasReachedEnd(balls)
    /\ \A k \in 1..Len(balls) : balls[k].distance <= balls[Len(balls)].distance

\* the head of the chain is past the end of the path and its tail is not
C12_Witness ==
    /\ Len(balls) >= 2
    /\ hasReachedEnd(balls)
    /\ balls[1].distance < totalLength

(***************************************************************************)
(* C13  update(0) on a chain without overlap spawns nothing, leaves        *)
(* spawnTimer and spawnedCount as they were, and moves no ball: the motion *)
(* step and the overlap resolution leave the array as it was, and the      *)
(* only change is the match scan taking out the runs of 3 or more.         *)
(***************************************************************************)
C13_ZeroDtTick ==
    (last.op = "update" /\ last.dt = 0 /\ NonOverlap(last.sorted)) =>
        /\ ~last.spawned
        /\ spawnTimer = last.timer0
        /\ spawnedCount = last.count0
        /\ nextId = last.id0
        /\ last.moved = last.sorted
        /\ last.resolved = last.sorted
        /\ balls = Without(last.sorted, LongRuns(last.sorted))

\* update(0) with the spawn timer running that removes a run of three and
\* leaves the rest
C13_Witness ==
    /\ last.op = "update"
    /\ last.dt = 0
    /\ last.timer0 > 0
    /\ last.log = <<3>>
    /\ Len(balls) >= 1

(***************************************************************************)
(* C15  getPointAt(d): for d >= totalLength the result is the last point   *)
(* of the path; for d < 0 it is the first point moved |d| backwards along  *)
(* the direction of the first segment; for 0 <= d < totalLength it is the  *)
(* point interpolated on the first segment, in ascending order, whose      *)
(* cumulative end length is >= d.  The call leaves the path as it was.     *)
(***************************************************************************)
\* the sum of the first i segment lengths of the path p
RECURSIVE Cumulative(_, _)
Cumulative(p, i) ==
    IF i = 0 THEN 0 ELSE Cumulative(p, i - 1) + p.segmentLengths[i]

\* q lies on the line from p1 through p2, at t / len of the way from p1 to p2
OnLine(q, p1, p2, t, len) ==
    /\ (q.x - p1.x) * len = (p2.x - p1.x) * t
    /\ (q.y - p1.y) * len = (p2.y - p1.y) * t

C15_CurveBoundaries ==
    last.op = "getPointAt" =>
        LET d == last.distance
            q == last.point
            pts == path.points
            lens == path.segmentLengths
        IN  /\ path = generateSpiral(spiralPoints)
            /\ d >= path.totalLength =>
                   q.x = pts[Len(pts)].x /\ q.y = pts[Len(pts)].y
            /\ d < 0 => OnLine(q, pts[1], pts[2], d, lens[1])
            /\ (0 <= d /\ d < path.totalLength) =>
                   \E i \in 1..Len(lens) :
                       /\ Cumulative(path, i) >= d
                       /\ \A j \in 1..(i - 1) : Cumulative(path, j) < d
                       /\ q.angle = i
                       /\ OnLine(q, pts[i], pts[i + 1],
                                 d - Cumulative(path, i - 1), lens[i])

\* a distance exactly at the end of the first segment
C15_Witness ==
    /\ last.op = "getPointAt"
    /\ last.distance = path.segmentLengths[1]
    /\ last.point = [x |-> path.points[2].x, y |-> path.points[2].y, angle |-> 1]

(***************************************************************************)
(* C14  checkCollision(projectile) returns the lowest index whose ball's   *)
(* position on the path is at distance strictly less than ball.radius +    *)
(* projectile.radius from the projectile, even when a ball of higher index *)
(* is closer; it returns null when no ball is that close; and it changes   *)
(* nothing.                                                                *)
(***************************************************************************)
\* the square of the distance from the ball b[k] to the projectile
Dist2(b, projectile, k) ==
    LET pos == getPointAt(path, b[k].distance).ret
    IN  ((pos.x - projectile.x) * (pos.x - projectile.x))
            + ((pos.y - projectile.y) * (pos.y - projectile.y))

\* the ball b[k] and the projectile overlap
Overlaps(b, projectile, k) ==
    Dist2(b, projectile, k)
        < (ballRadius + projectile.radius) * (ballRadius + projectile.radius)

C14_FirstMatchWins ==
    last.op = "checkCollision" =>
        LET proj == last.projectile
            hits == {k \in 1..Len(balls) : Overlaps(balls, proj, k)}
        IN  /\ balls = last.balls0
            /\ path = generateSpiral(spiralPoints)
            /\ spawnTimer = last.timer0
            /\ spawnedCount = last.count0
            /\ nextId = last.id0
            /\ hits = {} => last.hit = null
            /\ hits # {} =>
                   /\ last.hit.index + 1 \in hits
                   /\ \A k \in hits : last.hit.index + 1 <= k
                   /\ LET pos == getPointAt(path, balls[last.hit.index + 1].distance).ret
                      IN  last.hit.x = pos.x /\ last.hit.y = pos.y

\* index 0 is returned although the ball at index 2 is closer to the projectile
C14_Witness ==
    /\ last.op = "checkCollision"
    /\ Len(balls) = 3
    /\ last.hit.index = 0
    /\ Dist2(balls, last.projectile, 3) < Dist2(balls, last.projectile, 1)

(***************************************************************************)
(* C17  Whenever update() spawns a ball, the ball is created at the lowest *)
(* distance of the chain minus a diameter, or at 0 when the chain is       *)
(* empty, so that right after the spawn step it has strictly the smallest  *)
(* distance of all balls, and after the tick it is balls[0].               *)
(* The last part fails: the colour draw of spawnBall gives up after ten    *)
(* attempts, the new ball can complete a run of three with the two lowest  *)
(* balls, and the match scan of the same tick removes it.                  *)
(***************************************************************************)
\* the new ball is where the claim says right after the spawn step
SpawnedLowest ==
    LET s == last.sorted IN
    /\ Len(s) >= 1
    /\ s[1].id = last.id0
    /\ \A k \in 2..Len(s) : s[1].distance < s[k].distance
    /\ IF Len(s) = 1 THEN s[1].distance = 0
       ELSE \E k \in 2..Len(s) :
                /\ \A j \in 2..Len(s) : s[k].distance <= s[j].distance
                /\ s[1].distance = s[k].distance - diameter

\* the claim as stated
C17_SpawnedIsFirst ==
    (last.op = "update" /\ last.spawned) =>
        /\ SpawnedLowest
        /\ Len(balls) >= 1
        /\ balls[1].id = last.id0

\* the claim with the last part restricted to a new ball that the match scan
\* of the tick leaves in the chain
C17_SpawnedIsFirstIfKept ==
    (last.op = "update" /\ last.spawned) =>
        /\ SpawnedLowest
        /\ last.id0 \in Ids(balls) => balls[1].id = last.id0

\* a short tick that spawns a ball below two others and leaves it first
C17_Witness ==
    /\ last.op = "update"
    /\ last.spawned
    /\ last.dt < BigDt
    /\ Len(balls) >= 3
    /\ balls[1].id = last.id0

(***************************************************************************)
(* C18  In the motion step of every update(dt) with dt > 0, every segment  *)
(* other than segment 0 gets a strictly negative velocity: the distance of *)
(* each of its balls is lower after the motion step than before it,        *)
(* whatever dt and the gaps are, also when segment 0 has been advanced in  *)
(* the same tick.                                                          *)
(* The code does not have this property: the gap is measured to the tail   *)
(* of the previous segment after that segment has moved, and when a long   *)
(* tick has carried that tail far enough past the head the gap is          *)
(* negative, min(gap / 50, 1.5) is below -0.5, and the velocity positive.  *)
(***************************************************************************)
\* the ball s[k] is not in segment 0: some gap at or below it is wider than
\* diameter + epsilon
Trailing(s, k) ==
    \E j \in 2..k : s[j].distance - s[j - 1].distance > diameter + epsilon

C18_TrailingPulledBack ==
    (last.op = "update" /\ last.dt > 0) =>
        \A k \in 1..Len(last.sorted) :
            Trailing(last.sorted, k) =>
                last.moved[k].distance < last.sorted[k].distance

(***************************************************************************)
(* C19  Right after every update() the chain has no three consecutive      *)
(* balls of one colour whose two gaps are both <= diameter + epsilon: the  *)
(* scan misses no run, the balls that become neighbours when a run between *)
(* them is removed included.                                               *)
(***************************************************************************)
C19_NoRunLeft ==
    last.op = "update" =>
        \A k \in 1..(Len(balls) - 2) : ~(Linked(balls, k) /\ Linked(balls, k + 1))

\* a tick whose scan removed a run from between balls of one colour, which are
\* now three consecutive balls of that colour
C19_Witness ==
    /\ last.op = "update"
    /\ last.log # <<>>
    /\ \E k \in 1..(Len(balls) - 2) :
           /\ balls[k].color = balls[k + 1].color
           /\ balls[k + 1].color = balls[k + 2].color

(***************************************************************************)
(* C20  In an update(dt) whose chain is without overlap after the spawn    *)
(* step, every ball of segment 0 that is not eliminated ends the tick at   *)
(* exactly its old distance + speed * dt, and the motion step changes no   *)
(* gap between two balls of one segment.                                   *)
(***************************************************************************)
C20_LeadingSegmentRigid ==
    (last.op = "update" /\ NonOverlap(last.sorted)) =>
        LET s == last.sorted IN
        /\ \A k \in 1..Len(s) :
               ~Trailing(s, k) =>
                   \A n \in 1..Len(balls) :
                       balls[n].id = s[k].id =>
                           balls[n].distance = s[k].distance + (speed * last.dt)
        /\ \A k \in 1..(Len(s) - 1) :
               s[k + 1].distance - s[k].distance <= diameter + epsilon =>
                   last.moved[k + 1].distance - last.moved[k].distance
                       = s[k + 1].distance - s[k].distance

\* a long tick on a segment 0 of two balls followed by a trailing segment,
\* with no ball eliminated
C20_Witness ==
    /\ last.op = "update"
    /\ last.dt = BigDt
    /\ Len(last.sorted) >= 3
    /\ ~Trailing(last.sorted, 2)
    /\ Trailing(last.sorted, 3)
    /\ Len(balls) = Len(last.sorted)

(***************************************************************************)
(* C21  If update() keeps being called with one dt > 0 and nothing else is *)
(* called, then eventually the chain is empty or is a single segment: no   *)
(* gap between two segments persists or grows for ever.  With the spawn    *)
(* cap reached a tick depends on the distances only through their          *)
(* differences, so the claim excludes a tick that leaves a chain of two or *)
(* more segments as it was but for a shift of all its balls by one         *)
(* amount: the next tick with the same dt would do the same, and so on for *)
(* ever.                                                                   *)
(* The code does have such ticks: where gap - speed * dt = -37.5 px the    *)
(* velocity of the trailing segment is +speed (see C18).                   *)
(***************************************************************************)
\* the chain b is the chain a with every ball moved by the amount d
Shifted(a, b, d) ==
    /\ Len(b) = Len(a)
    /\ \A k \in 1..Len(a) :
           b[k] = [a[k] EXCEPT !.distance = @ + d]

C21_NoSteadyGap ==
    ~ /\ last.op = "update"
      /\ last.dt > 0
      /\ last.count0 >= maxBalls
      /\ Len(identifySegments(last.sorted)) >= 2
      /\ Shifted(last.sorted, balls, speed * last.dt)

(***************************************************************************)
(* C22  Token conservation: in every state the number of live balls is     *)
(* spawnedCount plus the number of insertBall calls minus the sum of the   *)
(* onMatch arguments and of the results of checkMatches.  A call removes   *)
(* exactly as many balls as it reports, every reported run is 3 or more    *)
(* long, and a tick that reports nothing keeps every ball, those at or     *)
(* past the end of the path included.                                      *)
(***************************************************************************)
\* the ids of the balls the last call removed: of those that were live before
\* it and of the one it spawned or inserted
Removed ==
    LET added == IF last.spawned \/ last.op = "insertBall" THEN {last.id0} ELSE {}
    IN  (Ids(last.balls0) \cup added) \ Ids(balls)

C22_TokenConservation ==
    /\ Len(balls) = (spawnedCount + last.inserted) - last.reported
    /\ last.op = "update" =>
           /\ Cardinality(Removed) = Sum(last.log)
           /\ \A k \in 1..Len(last.log) : last.log[k] >= 3
           /\ last.log = <<>> => Ids(last.resolved) \subseteq Ids(balls)
    /\ last.op = "checkMatches" =>
           /\ Cardinality(Removed) = last.ret
           /\ last.ret = 0 \/ last.ret >= 3
    /\ last.op = "insertBall" => Removed = {}

\* a tick has kept a ball that is past the end of the path, after balls were
\* inserted and runs were removed
C22_Witness ==
    /\ last.op = "update"
    /\ last.dt > 0
    /\ last.inserted >= 1
    /\ last.reported >= 3
    /\ \E k \in 1..Len(balls) : balls[k].distance >= totalLength

(***************************************************************************)
(* C23  Token identity: the live balls have pairwise distinct ids; spawned *)
(* and inserted balls take their ids from one counter that only grows, so  *)
(* every live id is below nextId and the ball a call adds has an id no     *)
(* earlier ball had; a ball that is live before and after a call keeps its *)
(* id and its colour.                                                      *)
(***************************************************************************)
\* the ball of b with the id i
WithId(b, i) == b[CHOOSE k \in 1..Len(b) : b[k].id = i]

C23_TokenIdentity ==
    /\ \A j, k \in 1..Len(balls) : j # k => balls[j].id # balls[k].id
    /\ \A k \in 1..Len(balls) : balls[k].id < nextId
    /\ nextId = spawnedCount + last.inserted
    /\ nextId >= last.id0
    /\ last.op \in {"update", "insertBall", "checkMatches"} =>
           \A k \in 1..Len(balls) :
               IF balls[k].id \in Ids(last.balls0)
               THEN balls[k].color = WithId(last.balls0, balls[k].id).color
               ELSE /\ balls[k].id = last.id0
                    /\ nextId = last.id0 + 1
                    /\ \A j \in 1..Len(last.balls0) : last.balls0[j].id < last.id0

\* a ball has been inserted after a run was removed, next to balls that were
\* live before
C23_Witness ==
    /\ last.op = "insertBall"
    /\ last.reported >= 3
    /\ Len(last.balls0) >= 2
    /\ Len(balls) = Len(last.balls0) + 1

(***************************************************************************)
(* C24  Relative order: two balls that are live before and after a call of *)
(* update, insertBall or checkMatches are in the same order in the array   *)
(* after the call as before it, also when a tick has moved a ball of a     *)
(* trailing segment back past the ball before it.                          *)
(***************************************************************************)
\* the (1-based) position of the ball with the id i in b
Position(b, i) == CHOOSE k \in 1..Len(b) : b[k].id = i

C24_OrderPreserved ==
    last.op \in {"update", "insertBall", "checkMatches"} =>
        \A i, j \in Ids(last.balls0) \cap Ids(balls) :
            Position(last.balls0, i) < Position(last.balls0, j)
                => Position(balls, i) < Position(balls, j)

\* a tick has moved a ball back past the ball before it, and both are live
\* after the tick
C24_Witness ==
    /\ last.op = "update"
    /\ last.unsorted
    /\ last.log = <<>>
    /\ Len(balls) >= 2

(***************************************************************************)
(* C25  Pausing withholds ticks: a loop callback that runs while isPaused  *)
(* is true calls neither chain.update nor checkCollision, and leaves the   *)
(* chain, the projectile list, the score and the pause itself as they      *)
(* were.                                                                   *)
(***************************************************************************)
C25_PausedFrame ==
    [][(game.isPaused /\ game'.op = "loop") =>
           /\ UNCHANGED <<balls, spawnTimer, spawnedCount, nextId, path>>
           /\ game'.projectiles = game.projectiles
           /\ game'.score = game.score
           /\ game'.cooldown = game.cooldown
           /\ game'.isPaused
           /\ ~game'.ticked
           /\ game'.tested = 0]_vars

\* a loop callback has run while the game was paused with a projectile in
\* flight and a chain of two or more balls
C25_Witness ==
    /\ game.op = "loop"
    /\ game.isRunning
    /\ game.isPaused
    /\ Len(game.projectiles) >= 1
    /\ Len(balls) >= 2

(***************************************************************************)
(* C26  End of level is final: when, right after the chain tick of a       *)
(* frame, the chain has reached the end or is empty with the spawning      *)
(* finished, that frame sets isRunning to false, calls exactly one of      *)
(* onGameOver and onVictory, once, and tests and inserts no projectile;    *)
(* and while isRunning is false nothing but start, restart or nextLevel    *)
(* changes the chain, the projectiles, the score or isRunning, and no      *)
(* further onGameOver or onVictory call is made.                           *)
(***************************************************************************)
\* the end-of-level checks on the array b
Arrived(b) == Len(b) > 0 /\ b[Len(b)].distance >= path.totalLength
Cleared(b) == Len(b) = 0 /\ spawnedCount >= maxBalls

C26_FrameOfTheEnd ==
    (game.op = "loop" /\ game.ticked) =>
        /\ Arrived(game.afterTick) =>
               /\ ~game.isRunning
               /\ game.ended = <<"onGameOver">>
        /\ Cleared(game.afterTick) =>
               /\ ~game.isRunning
               /\ game.ended = <<"onVictory">>
        /\ (Arrived(game.afterTick) \/ Cleared(game.afterTick)) =>
               /\ game.tested = 0
               /\ game.projectiles = game.projectiles0
               /\ balls = game.afterTick
        /\ ~(Arrived(game.afterTick) \/ Cleared(game.afterTick)) =>
               /\ game.isRunning
               /\ game.ended = <<>>

C26_StoppedStaysStopped ==
    (~game.isRunning /\ game'.op \notin {"start", "nextLevel"}) =>
        /\ UNCHANGED <<balls, spawnTimer, spawnedCount, nextId, path>>
        /\ game'.projectiles = game.projectiles
        /\ game'.score = game.score
        /\ game'.ended = game.ended
        /\ ~game'.isRunning
        /\ ~game'.ticked

C26_EndOfLevelFinal == [](C26_FrameOfTheEnd) /\ [][C26_StoppedStaysStopped]_vars

\* the chain reached the end of the path in a frame with a projectile in
\* flight, and a later loop callback found the game stopped
C26_Witness ==
    /\ game.op = "loop"
    /\ ~game.ticked
    /\ ~game.isRunning
    /\ game.ended = <<"onGameOver">>
    /\ Len(game.projectiles) >= 1
    /\ Arrived(balls)

====
